---- MODULE Spec2Model ----
(***************************************************************************)
(* A model of stock.py: the rate resolver (get_rate), the currency         *)
(* validation (validate_currency), the quote and dividend workers          *)
(* (get_ticker_summary, get_dividend_data), the aggregator                 *)
(* (build_display_group) and the refresh loop (fetch_portfolio).           *)
(*                                                                         *)
(* Numbers are exact rationals <<n, d>> with d > 0, kept in lowest terms.  *)
(* An optional value (Python None or a value) is a sequence of length 0    *)
(* or 1.  The market-data provider is the environment: every lookup draws  *)
(* its outcome from a small set (raise, None, 0, or a price).              *)
(***************************************************************************)
EXTENDS Integers, Sequences, FiniteSets, TLC

----------------------------------------------------------------------------
(* Bounds of the model *)

\* number of holdings of the largest portfolio configuration
MaxHoldings == 2
\* number of refresh cycles a watch session is followed for
MaxCycles == 2
\* deviations from the regular course (a provider lookup that raises or
\* yields no value, a zero or a drifted price, no dividend due, an empty
\* history, a wait longer than 5 seconds) a run is followed through
MaxDeviations == 1
\* reading of time.time() when the run starts
ClockStart == 1000
\* length of the longest series, and the largest value of a series, that
\* render_sparkline is applied to on its own
MaxSeriesLen == 3
MaxSeriesValue == 7

(* Program constants *)

\* seconds between two history refreshes (line 405)
HistoryPeriod == 120
\* seconds of the wait loop, 50 * 0.1 (lines 445-446)
WaitSeconds == 5

----------------------------------------------------------------------------
(* Values *)

None == <<>>
Some(v) == <<v>>

RECURSIVE GCD(_, _)
GCD(a, b) == IF b = 0 THEN a ELSE GCD(b, a % b)

Abs(n) == IF n < 0 THEN -n ELSE n

\* a rational in lowest terms with a positive denominator
Norm(q) ==
    LET g == GCD(Abs(q[1]), Abs(q[2]))
        s == IF q[2] < 0 THEN -1 ELSE 1
    IN  <<(s * q[1]) \div g, (s * q[2]) \div g>>

Num(n) == <<n, 1>>
RMul(a, b) == Norm(<<a[1] * b[1], a[2] * b[2]>>)
RAdd(a, b) == Norm(<<a[1] * b[2] + b[1] * a[2], a[2] * b[2]>>)
RSub(a, b) == RAdd(a, <<-b[1], b[2]>>)
\* a / b, for b # 0
RDiv(a, b) == Norm(<<a[1] * b[2], a[2] * b[1]>>)
RPos(a) == a[1] > 0
RZero(a) == a[1] = 0

\* Python truthiness of an optional number: None and 0 are false
Truthy(o) == o # None /\ ~RZero(o[1])

----------------------------------------------------------------------------
(* The configuration *)

AllSymbols == <<"A", "B", "C", "D">>

\* the holdings mapping of a configuration with k holdings (line 342)
HoldingsOf(k) ==
    [s \in {AllSymbols[i] : i \in 1..k} |->
        CASE s = "A" -> 10 [] s = "B" -> 2 [] s = "C" -> 3 [] OTHER -> 1]

HoldingsConfigs == {HoldingsOf(k) : k \in 0..MaxHoldings}

\* what -c / the config file may hold as the currency
CurrencyInputs == {"USD", "sek", "EU", "INVALID"}

\* str.upper() on the currency inputs (lines 73, 85, 341)
Upper(c) ==
    CASE c = "sek" -> "SEK"
      [] c = "usd" -> "USD"
      [] c = "eu" -> "EU"
      [] OTHER -> c

----------------------------------------------------------------------------
(* The provider (yfinance): what a lookup may yield *)

\* the currency the provider quotes a symbol in
NativeCurrency(s) ==
    CASE s = "A" -> "SEK" [] s = "B" -> "SEK" [] s = "C" -> "EUR" [] OTHER -> "USD"

\* an outcome of reading fast_info["lastPrice"]: raise, or a value or None
Raise == [err |-> TRUE, val |-> None]
Yield(o) == [err |-> FALSE, val |-> o]

\* the worth of one unit of a currency, in a common unit
Worth(c) == CASE c = "SEK" -> 1 [] c = "EUR" -> 10 [] c = "USD" -> 8 [] OTHER -> 1

\* the price the provider reports for the pair source -> target, and the
\* price it reports after the market has moved
MarketPrice(source, target) == Norm(<<Worth(source), Worth(target)>>)
DriftedPrice(source, target) == Norm(<<Worth(source), 2 * Worth(target)>>)

\* every outcome of a lookup of the pair source -> target
PairOutcomes(source, target) ==
    { Raise, Yield(None), Yield(Some(Num(0))),
      Yield(Some(MarketPrice(source, target))),
      Yield(Some(DriftedPrice(source, target))) }

\* the regular outcome
RegularPair(source, target, o) == o = Yield(Some(MarketPrice(source, target)))

\* the pair's ticker name (lines 91, 102, 112)
Pair(source, target) == source \o target \o "=X"

----------------------------------------------------------------------------
(* validate_currency (lines 84-96) *)

\* faulty variant of validate_currency: a lookup that yields nothing still
\* validates
validate_currency_lenient(currency_code, outcome) ==
    LET code == Upper(currency_code)
    IN  IF Len(code) # 3 THEN [ok |-> FALSE, lookup |-> None]
        ELSE IF code = "USD" THEN [ok |-> TRUE, lookup |-> None]
        ELSE [ok |-> ~outcome.err, lookup |-> Some(Pair("USD", code))]

\* the result of validate_currency and the pair it looked up, if any, when
\* the provider answers the lookup with outcome
validate_currency(currency_code, outcome) ==
    LET code == Upper(currency_code)
    IN  IF Len(code) # 3 THEN [ok |-> FALSE, lookup |-> None]
        ELSE IF code = "USD" THEN [ok |-> TRUE, lookup |-> None]
        ELSE [ok |-> ~outcome.err /\ Truthy(outcome.val),
              lookup |-> Some(Pair("USD", code))]

----------------------------------------------------------------------------
(* get_rate (lines 99-118), step by step *)

\* faulty variants of get_rate_entry: without the identity shortcut; without
\* the cache check
get_rate_entry_no_identity(source, target, cache) ==
    IF Pair(source, target) \in DOMAIN cache
    THEN [hit |-> TRUE, rate |-> cache[Pair(source, target)]]
    ELSE [hit |-> FALSE, rate |-> None]

get_rate_entry_no_cache(source, target, cache) ==
    IF source = target THEN [hit |-> TRUE, rate |-> Some(Num(1))]
    ELSE [hit |-> FALSE, rate |-> None]

\* lines 100-104: the identity rate and the cache hit; hit = FALSE sends the
\* caller on to the direct lookup
get_rate_entry(source, target, cache) ==
    IF source = target THEN [hit |-> TRUE, rate |-> Some(Num(1))]
    ELSE IF Pair(source, target) \in DOMAIN cache
         THEN [hit |-> TRUE, rate |-> cache[Pair(source, target)]]
         ELSE [hit |-> FALSE, rate |-> None]

\* lines 106-107: the direct lookup raises (and the except branch is taken),
\* or its value, whatever it is, becomes the rate
direct_raises(outcome) == outcome.err

direct_rate(outcome) == outcome.val

\* line 114: 1 / lastPrice raises on None (TypeError) and on 0
\* (ZeroDivisionError), as does a failing lookup
inverse_raises(outcome) == outcome.err \/ ~Truthy(outcome.val)

\* faulty variant of inverse_rate: the reciprocal is forgotten
inverse_rate_direct(outcome) == outcome.val

inverse_rate(outcome) == Some(RDiv(Num(1), outcome.val[1]))

\* lines 108 and 115: cache[pair] = rate, under the forward key
cache_store(cache, source, target, rate) ==
    [k \in DOMAIN cache \cup {Pair(source, target)} |->
        IF k = Pair(source, target) THEN rate ELSE cache[k]]

----------------------------------------------------------------------------
(* get_ticker_summary (lines 121-146) *)

\* outcomes of reading the quote of a symbol (lines 123-127): the read
\* raises, or yields a price, a previous close and a currency
QuoteRaise == [err |-> TRUE, price |-> None, prev |-> None, cur |-> None]

Quote(price, prev, cur) == [err |-> FALSE, price |-> price, prev |-> prev, cur |-> cur]

QuoteOutcomes(s) ==
    { QuoteRaise,
      Quote(None, Some(Num(100)), Some(NativeCurrency(s))),
      Quote(Some(Num(110)), Some(Num(100)), Some(NativeCurrency(s))),
      Quote(Some(Num(110)), None, Some(NativeCurrency(s))),
      Quote(Some(Num(110)), Some(Num(0)), Some(NativeCurrency(s))),
      Quote(Some(Num(110)), Some(Num(100)), None) }

RegularQuote(s, q) == q = Quote(Some(Num(110)), Some(Num(100)), Some(NativeCurrency(s)))

\* line 127: fi.get("currency", "USD")
source_currency_of(q) == IF q.cur = None THEN "USD" ELSE q.cur[1]

\* faulty variant of ticker_summary: the change is taken relative to the
\* price instead of the previous close
ticker_summary_chg_of_price(symbol, qty, q, conv) ==
    IF q.price # None /\ conv # None
    THEN LET price == q.price[1]
             val_now == RMul(RMul(price, conv[1]), Num(qty))
         IN  Some([symbol |-> symbol,
                   qty |-> qty,
                   val_now |-> val_now,
                   val_prev |-> IF Truthy(q.prev)
                                THEN RMul(RMul(q.prev[1], conv[1]), Num(qty))
                                ELSE val_now,
                   chg_pct |-> IF Truthy(q.prev)
                               THEN RMul(RDiv(RSub(price, q.prev[1]), price), Num(100))
                               ELSE Num(0),
                   conv |-> conv[1],
                   source_currency |-> source_currency_of(q)])
    ELSE None

\* faulty variant of ticker_summary: a missing rate is taken as 1
ticker_summary_default_rate(symbol, qty, q, conv) ==
    IF q.price # None
    THEN LET price == q.price[1]
             rate == IF conv = None THEN Num(1) ELSE conv[1]
             val_now == RMul(RMul(price, rate), Num(qty))
         IN  Some([symbol |-> symbol,
                   qty |-> qty,
                   val_now |-> val_now,
                   val_prev |-> IF Truthy(q.prev)
                                THEN RMul(RMul(q.prev[1], rate), Num(qty))
                                ELSE val_now,
                   chg_pct |-> IF Truthy(q.prev)
                               THEN RMul(RDiv(RSub(price, q.prev[1]), q.prev[1]), Num(100))
                               ELSE Num(0),
                   conv |-> rate,
                   source_currency |-> source_currency_of(q)])
    ELSE None

\* lines 130-146: the row, or None when the price or the rate is missing
ticker_summary(symbol, qty, q, conv) ==
    IF q.price # None /\ conv # None
    THEN LET price == q.price[1]
             val_now == RMul(RMul(price, conv[1]), Num(qty))
         IN  Some([symbol |-> symbol,
                   qty |-> qty,
                   val_now |-> val_now,
                   val_prev |-> IF Truthy(q.prev)
                                THEN RMul(RMul(q.prev[1], conv[1]), Num(qty))
                                ELSE val_now,
                   chg_pct |-> IF Truthy(q.prev)
                               THEN RMul(RDiv(RSub(price, q.prev[1]), q.prev[1]), Num(100))
                               ELSE Num(0),
                   conv |-> conv[1],
                   source_currency |-> source_currency_of(q)])
    ELSE None

----------------------------------------------------------------------------
(* get_dividend_data (lines 149-174) *)

CURRENCY_SYMBOLS(c) ==
    CASE c = "EUR" -> "EUR-sign" [] c = "USD" -> "$" [] c = "GBP" -> "GBP-sign"
      [] c = "SEK" -> "kr" [] c = "JPY" -> "JPY-sign" [] c = "CHF" -> "Fr"
      [] c = "CAD" -> "C$" [] c = "AUD" -> "A$" [] OTHER -> c

\* outcomes of reading the calendar and the info of a ticker: the read
\* raises, or yields an ex-date (in days from today, or none) and an amount
DividendOutcomes ==
    { [err |-> TRUE, ex_date |-> None, amt |-> Num(0)],
      [err |-> FALSE, ex_date |-> None, amt |-> Num(2)],
      [err |-> FALSE, ex_date |-> Some(-1), amt |-> Num(2)],
      [err |-> FALSE, ex_date |-> Some(0), amt |-> Num(0)],
      [err |-> FALSE, ex_date |-> Some(0), amt |-> Num(2)] }

RegularDividend(d) == d = [err |-> FALSE, ex_date |-> Some(0), amt |-> Num(2)]

get_dividend_data(summary_data, d) ==
    IF ~d.err /\ d.ex_date # None /\ d.ex_date[1] >= 0 /\ RPos(d.amt)
    THEN Some([symbol |-> summary_data.symbol,
               ex_date |-> d.ex_date[1],
               amt |-> d.amt,
               total_p |-> RMul(RMul(d.amt, summary_data.conv), Num(summary_data.qty)),
               cur_label |-> CURRENCY_SYMBOLS(summary_data.source_currency)])
    ELSE None

----------------------------------------------------------------------------
(* render_sparkline (lines 177-185) *)

RECURSIVE SeqMin(_)
SeqMin(vs) ==
    IF Len(vs) = 1 THEN vs[1]
    ELSE LET m == SeqMin(Tail(vs)) IN IF vs[1] <= m THEN vs[1] ELSE m

RECURSIVE SeqMax(_)
SeqMax(vs) ==
    IF Len(vs) = 1 THEN vs[1]
    ELSE LET m == SeqMax(Tail(vs)) IN IF vs[1] >= m THEN vs[1] ELSE m

\* faulty variant of render_sparkline: a series without span is drawn at the
\* lowest level
render_sparkline_flat(series) ==
    IF Len(series) < 2 THEN <<>>
    ELSE LET min_v == SeqMin(series)
             span == SeqMax(series) - min_v
         IN  IF span <= 0 THEN [i \in 1..Len(series) |-> 0]
             ELSE [i \in 1..Len(series) |->
                      LET l == ((series[i] - min_v) * 7) \div span
                      IN  IF l < 7 THEN l ELSE 7]

\* the glyph levels 0..7 (index into " ▂▃▄▅▆▇█"), one per value
render_sparkline(series) ==
    IF Len(series) < 2 THEN <<>>
    ELSE LET min_v == SeqMin(series)
             span == SeqMax(series) - min_v
         IN  IF span <= 0 THEN [i \in 1..Len(series) |-> 7]
             ELSE [i \in 1..Len(series) |->
                      LET l == ((series[i] - min_v) * 7) \div span
                      IN  IF l < 7 THEN l ELSE 7]

\* what fetch_history (lines 188-233) may return: nothing (an error, an
\* empty frame) or a series of daily totals
HistoryResults == {<<>>, <<3, 5, 4>>}

----------------------------------------------------------------------------
(* build_display_group (lines 236-325) *)

SymIndex(s) == CHOOSE i \in 1..Len(AllSymbols) : AllSymbols[i] = s

\* sorted(summary_results, key=symbol) (line 262)
RECURSIVE SortBySymbol(_)
SortBySymbol(rows) ==
    IF rows = {} THEN <<>>
    ELSE LET first == CHOOSE r \in rows :
                          \A o \in rows : SymIndex(r.symbol) <= SymIndex(o.symbol)
         IN  <<first>> \o SortBySymbol(rows \ {first})

\* sorted(dividend_results, key=ex_date) (line 288); events of one day are
\* listed by symbol
RECURSIVE SortByExDate(_)
SortByExDate(events) ==
    IF events = {} THEN <<>>
    ELSE LET first == CHOOSE e \in events :
                 \A o \in events :
                     \/ e.ex_date < o.ex_date
                     \/ e.ex_date = o.ex_date /\ SymIndex(e.symbol) <= SymIndex(o.symbol)
         IN  <<first>> \o SortByExDate(events \ {first})

RECURSIVE SumNow(_)
SumNow(table) ==
    IF table = <<>> THEN Num(0) ELSE RAdd(table[1].val_now, SumNow(Tail(table)))

RECURSIVE SumPrev(_)
SumPrev(table) ==
    IF table = <<>> THEN Num(0) ELSE RAdd(table[1].val_prev, SumPrev(Tail(table)))

\* faulty variant of summary_panel: the panel is always built, with a day
\* change of zero when there is no previous value
summary_panel_always(total_val, total_prev, history_points) ==
    Some([total_val |-> total_val,
          day_chg |-> IF RPos(total_prev)
                      THEN Some(RMul(RDiv(RSub(total_val, total_prev), total_prev),
                                     Num(100)))
                      ELSE Some(Num(0)),
          spark |-> IF Len(history_points) > 1
                    THEN Some(render_sparkline(history_points))
                    ELSE None])

\* lines 296-313: the summary panel (the total value, the day change if
\* any, the sparkline if any), built only when total_prev > 0
summary_panel(total_val, total_prev, history_points) ==
    IF RPos(total_prev)
    THEN Some([total_val |-> total_val,
               day_chg |-> Some(RMul(RDiv(RSub(total_val, total_prev), total_prev),
                                     Num(100))),
               spark |-> IF Len(history_points) > 1
                         THEN Some(render_sparkline(history_points))
                         ELSE None])
    ELSE None

\* the renderable the function returns (lines 318-325): the table, the
\* dividend table (empty when there is none), the summary panel if any, and
\* the footer
build_display_group(summary_results, dividend_results, footer_text, history_points) ==
    LET table == SortBySymbol(summary_results)
    IN  [table |-> table,
         div_table |-> SortByExDate(dividend_results),
         summary_panel |-> summary_panel(SumNow(table), SumPrev(table), history_points),
         footer |-> footer_text]

----------------------------------------------------------------------------
(* fetch_portfolio (lines 328-455): the state *)

VARIABLES
    \* the configuration (lines 340-342) and the process
    holdings, target_currency, watch, pc, exit_status, raised, clock,
    \* the locals that live across cycles (lines 351-355)
    last_summary, last_dividends, history_points, last_history_update,
    ticker_to_currency,
    \* the locals of one cycle (lines 365-371, 403)
    current_summary, current_dividends, rate_cache, completed, now,
    \* what the Live display shows and what console.print printed last
    live, printed,
    \* the quote workers: position, quote read, rate in hand, conv, result
    wpc, wq, wrate, wconv, wres,
    \* the dividend workers: position, result
    dpc, dres,
    \* observations: cycles started, the validation made, provider lookups
    \* of the cycle per pair, each worker's way through get_rate and the
    \* last outcome it read, the times of the last two fetch_history calls
    cycle, validation, lookups, wpath, wout, hist_times,
    \* the deviations met so far, and the rows handed to
    \* build_display_group by the as_completed loop of the cycle
    deviations, shown,
    \* a KeyboardInterrupt has been delivered to the main thread
    interrupted,
    \* observations: the rates the lookups of the cycle produced, per forward
    \* pair, and how each quote worker of the cycle ended
    obtained, wcause,
    \* render_sparkline applied on its own: the argument and the result
    values, glyphs

config_vars == <<holdings, target_currency, watch>>
run_vars == <<last_summary, last_dividends, history_points, last_history_update,
              ticker_to_currency>>
cycle_vars == <<current_summary, current_dividends, rate_cache, completed, now>>
worker_vars == <<wpc, wq, wrate, wconv, wres, wpath, wout>>
div_vars == <<dpc, dres>>
spark_vars == <<values, glyphs>>
vars == <<holdings, target_currency, watch, pc, exit_status, raised, clock,
          last_summary, last_dividends, history_points, last_history_update,
          ticker_to_currency, current_summary, current_dividends, rate_cache,
          completed, now, live, printed, wpc, wq, wrate, wconv, wres, dpc, dres,
          cycle, validation, lookups, wpath, wout, hist_times, deviations, shown,
          interrupted, obtained, wcause, values, glyphs>>

Symbols == DOMAIN holdings

NoQuote == Quote(None, None, None)
EmptyMap == [k \in {} |-> None]

\* the process before its first step, whatever the configuration
InitRun ==
    /\ pc = "validate"
    /\ exit_status = None
    /\ raised = None
    /\ clock = ClockStart
    /\ last_summary = {}
    /\ last_dividends = {}
    /\ history_points = <<>>
    /\ last_history_update = 0
    /\ ticker_to_currency = EmptyMap
    /\ current_summary = {}
    /\ current_dividends = {}
    /\ rate_cache = EmptyMap
    /\ completed = 0
    /\ now = 0
    /\ live = None
    /\ printed = None
    /\ wpc = [s \in Symbols |-> "idle"]
    /\ wq = [s \in Symbols |-> NoQuote]
    /\ wrate = [s \in Symbols |-> None]
    /\ wconv = [s \in Symbols |-> None]
    /\ wres = [s \in Symbols |-> None]
    /\ dpc = [s \in Symbols |-> "idle"]
    /\ dres = [s \in Symbols |-> None]
    /\ cycle = 0
    /\ validation = None
    /\ lookups = EmptyMap
    /\ wpath = [s \in Symbols |-> "none"]
    /\ wout = [s \in Symbols |-> None]
    /\ hist_times = <<>>
    /\ deviations = 0
    /\ shown = {}
    /\ interrupted = FALSE
    /\ obtained = EmptyMap
    /\ wcause = [s \in Symbols |-> "none"]

Init ==
    /\ holdings \in HoldingsConfigs
    /\ \E c \in CurrencyInputs : target_currency = Upper(c)
    /\ watch \in BOOLEAN
    /\ InitRun
    /\ values = <<>>
    /\ glyphs = None

\* an outcome is met: one that deviates from the regular course only while
\* the run's bound on deviations allows it
Meets(regular) ==
    /\ regular \/ deviations < MaxDeviations
    /\ deviations' = IF regular THEN deviations ELSE deviations + 1

\* one more lookup of pair in this cycle
Counted(pair) ==
    [k \in DOMAIN lookups \cup {pair} |->
        IF k = pair THEN (IF k \in DOMAIN lookups THEN lookups[k] + 1 ELSE 1)
        ELSE lookups[k]]

LookupCount(pair) == IF pair \in DOMAIN lookups THEN lookups[pair] ELSE 0

\* one more rate produced for pair by a lookup of this cycle
Obtained(pair, rate) ==
    [k \in DOMAIN obtained \cup {pair} |->
        IF k = pair THEN (IF k \in DOMAIN obtained THEN obtained[k] ELSE {}) \cup {rate}
        ELSE obtained[k]]

----------------------------------------------------------------------------
(* lines 344-363: the validation and the Live display's first renderable *)

Validate ==
    /\ pc = "validate"
    /\ \E o \in PairOutcomes("USD", target_currency) :
         LET v == validate_currency(target_currency, o)
         IN  /\ validation' = Some([ok |-> v.ok, lookup |-> v.lookup,
                                    outcome |-> IF v.lookup = None THEN None ELSE Some(o)])
             /\ IF v.ok
                THEN /\ pc' = "loop"
                     /\ live' = Some(build_display_group({}, {}, <<"Initializing...">>, <<>>))
                     /\ exit_status' = exit_status
                ELSE /\ pc' = "exit"
                     /\ exit_status' = Some(1)
                     /\ live' = live
    /\ UNCHANGED <<config_vars, spark_vars, interrupted, obtained, wcause,
                   shown, deviations, raised, clock, run_vars, cycle_vars,
                   printed,
                   worker_vars, div_vars, cycle, lookups, hist_times>>

----------------------------------------------------------------------------
(* lines 365-380: a cycle starts; the pool is made and the workers submitted *)

\* faulty variant of fresh_rate_cache: the previous cycle's dict is kept
fresh_rate_cache_kept(previous) == previous

\* line 367: every cycle binds rate_cache to a new, empty dict, whatever the
\* previous cycle's dict holds
fresh_rate_cache(previous) == EmptyMap

StartCycle ==
    /\ pc = "loop"
    /\ Cardinality(Symbols) > 0
    /\ pc' = "quotes"
    /\ current_summary' = {}
    /\ current_dividends' = {}
    /\ rate_cache' = fresh_rate_cache(rate_cache)
    /\ obtained' = EmptyMap
    /\ wcause' = [s \in Symbols |-> "none"]
    /\ completed' = 0
    /\ wpc' = [s \in Symbols |-> "fetch"]
    /\ wq' = [s \in Symbols |-> NoQuote]
    /\ wrate' = [s \in Symbols |-> None]
    /\ wconv' = [s \in Symbols |-> None]
    /\ wres' = [s \in Symbols |-> None]
    /\ wpath' = [s \in Symbols |-> "none"]
    /\ wout' = [s \in Symbols |-> None]
    /\ dpc' = [s \in Symbols |-> "idle"]
    /\ dres' = [s \in Symbols |-> None]
    /\ cycle' = cycle + 1
    /\ lookups' = EmptyMap
    /\ shown' = {}
    /\ UNCHANGED <<config_vars, spark_vars, interrupted, deviations,
                   exit_status, raised, clock, run_vars, now, live,
                   printed, validation, hist_times>>

\* lines 372-374: ThreadPoolExecutor(max_workers=0) raises ValueError, which
\* nothing catches (line 453 catches KeyboardInterrupt only)
PoolError ==
    /\ pc = "loop"
    /\ Cardinality(Symbols) = 0
    /\ pc' = "exit"
    /\ raised' = Some("ValueError")
    /\ exit_status' = Some(1)
    /\ current_summary' = {}
    /\ current_dividends' = {}
    /\ rate_cache' = fresh_rate_cache(rate_cache)
    /\ completed' = 0
    /\ cycle' = cycle + 1
    /\ lookups' = EmptyMap
    /\ shown' = {}
    /\ UNCHANGED <<config_vars, spark_vars, interrupted, obtained, wcause,
                   deviations, clock, run_vars, now, live, printed, worker_vars,
                   div_vars, validation, hist_times>>

----------------------------------------------------------------------------
(* get_ticker_summary, run by the quote worker of symbol s *)

\* lines 123-127: the quote is read; an exception ends the worker with None
QuoteFetch(s) ==
    /\ wpc[s] = "fetch"
    /\ \E q \in QuoteOutcomes(s) :
         /\ Meets(RegularQuote(s, q))
         /\ IF q.err
            THEN /\ wpc' = [wpc EXCEPT ![s] = "done"]
                 /\ wres' = [wres EXCEPT ![s] = None]
                 /\ wcause' = [wcause EXCEPT ![s] = "error"]
                 /\ wq' = wq
            ELSE /\ wpc' = [wpc EXCEPT ![s] = "rate"]
                 /\ wq' = [wq EXCEPT ![s] = q]
                 /\ wres' = wres
                 /\ wcause' = wcause
    /\ UNCHANGED <<config_vars, spark_vars, interrupted, obtained, shown, pc,
                   exit_status, raised, clock, run_vars, cycle_vars,
                   live, printed, wrate, wconv, div_vars, cycle, validation, lookups,
                   wpath, wout, hist_times>>

\* lines 128, 100-104: get_rate is entered; identity and cache hit return
RateCheck(s) ==
    /\ wpc[s] = "rate"
    /\ LET source == source_currency_of(wq[s])
           e == get_rate_entry(source, target_currency, rate_cache)
       IN  IF e.hit
           THEN /\ wpc' = [wpc EXCEPT ![s] = "ret"]
                /\ wconv' = [wconv EXCEPT ![s] = e.rate]
                /\ wpath' = [wpath EXCEPT ![s] =
                                IF source = target_currency THEN "same" ELSE "cached"]
           ELSE /\ wpc' = [wpc EXCEPT ![s] = "direct"]
                /\ wconv' = wconv
                /\ wpath' = wpath
    /\ UNCHANGED <<config_vars, spark_vars, interrupted, obtained, wcause,
                   shown, deviations, pc, exit_status, raised, clock, run_vars,
                   cycle_vars,
                   live, printed, wq, wrate, wres, div_vars, cycle, validation,
                   lookups, wout, hist_times>>

\* lines 105-107, 110: the direct pair is looked up
DirectLookup(s) ==
    /\ wpc[s] = "direct"
    /\ LET source == source_currency_of(wq[s])
       IN  /\ lookups' = Counted(Pair(source, target_currency))
           /\ \E o \in PairOutcomes(source, target_currency) :
                /\ Meets(RegularPair(source, target_currency, o))
                /\ wout' = [wout EXCEPT ![s] = Some(o)]
                /\ IF direct_raises(o)
                   THEN /\ wpc' = [wpc EXCEPT ![s] = "inverse"]
                        /\ wrate' = wrate
                        /\ obtained' = obtained
                   ELSE /\ wpc' = [wpc EXCEPT ![s] = "dstore"]
                        /\ wrate' = [wrate EXCEPT ![s] = direct_rate(o)]
                        /\ obtained' = Obtained(Pair(source, target_currency),
                                                 direct_rate(o))
    /\ UNCHANGED <<config_vars, spark_vars, interrupted, wcause, shown, pc,
                   exit_status, raised, clock, run_vars, cycle_vars,
                   live, printed, wq, wconv, wres, div_vars, cycle, validation,
                   wpath, hist_times>>

\* lines 108-109: the rate is cached and returned
DirectStore(s) ==
    /\ wpc[s] = "dstore"
    /\ rate_cache' = cache_store(rate_cache, source_currency_of(wq[s]),
                                 target_currency, wrate[s])
    /\ wconv' = [wconv EXCEPT ![s] = wrate[s]]
    /\ wpath' = [wpath EXCEPT ![s] = "direct"]
    /\ wpc' = [wpc EXCEPT ![s] = "ret"]
    /\ UNCHANGED <<config_vars, spark_vars, interrupted, obtained, wcause,
                   shown, deviations, pc, exit_status, raised, clock, run_vars,
                   current_summary, current_dividends, completed, now, live, printed,
                   wq, wrate, wres, div_vars, cycle, validation, lookups, wout,
                   hist_times>>

\* lines 111-114, 117-118: the inverse pair is looked up and inverted; an
\* exception makes get_rate return None
InverseLookup(s) ==
    /\ wpc[s] = "inverse"
    /\ LET source == source_currency_of(wq[s])
       IN  /\ lookups' = Counted(Pair(target_currency, source))
           /\ \E o \in PairOutcomes(target_currency, source) :
                /\ Meets(RegularPair(target_currency, source, o))
                /\ wout' = [wout EXCEPT ![s] = Some(o)]
                /\ IF inverse_raises(o)
                   THEN /\ wpc' = [wpc EXCEPT ![s] = "ret"]
                        /\ wconv' = [wconv EXCEPT ![s] = None]
                        /\ wpath' = [wpath EXCEPT ![s] = "failed"]
                        /\ wrate' = wrate
                        /\ obtained' = obtained
                   ELSE /\ wpc' = [wpc EXCEPT ![s] = "istore"]
                        /\ wrate' = [wrate EXCEPT ![s] = inverse_rate(o)]
                        /\ obtained' = Obtained(Pair(source, target_currency),
                                                 inverse_rate(o))
                        /\ wconv' = wconv
                        /\ wpath' = wpath
    /\ UNCHANGED <<config_vars, spark_vars, interrupted, wcause, shown, pc,
                   exit_status, raised, clock, run_vars, cycle_vars,
                   live, printed, wq, wres, div_vars, cycle, validation, hist_times>>

\* lines 115-116: the inverted rate is cached and returned
InverseStore(s) ==
    /\ wpc[s] = "istore"
    /\ rate_cache' = cache_store(rate_cache, source_currency_of(wq[s]),
                                 target_currency, wrate[s])
    /\ wconv' = [wconv EXCEPT ![s] = wrate[s]]
    /\ wpath' = [wpath EXCEPT ![s] = "inverse"]
    /\ wpc' = [wpc EXCEPT ![s] = "ret"]
    /\ UNCHANGED <<config_vars, spark_vars, interrupted, obtained, wcause,
                   shown, deviations, pc, exit_status, raised, clock, run_vars,
                   current_summary, current_dividends, completed, now, live, printed,
                   wq, wrate, wres, div_vars, cycle, validation, lookups, wout,
                   hist_times>>

\* lines 130-146: the row is built and the worker's future completes
SummaryReturn(s) ==
    /\ wpc[s] = "ret"
    /\ wres' = [wres EXCEPT ![s] = ticker_summary(s, holdings[s], wq[s], wconv[s])]
    /\ wpc' = [wpc EXCEPT ![s] = "done"]
    /\ wcause' = [wcause EXCEPT ![s] =
                     IF wq[s].price = None THEN "price"
                     ELSE IF wconv[s] = None THEN "rate" ELSE "ok"]
    /\ wq' = [wq EXCEPT ![s] = NoQuote]
    /\ wrate' = [wrate EXCEPT ![s] = None]
    /\ wconv' = [wconv EXCEPT ![s] = None]
    /\ wpath' = [wpath EXCEPT ![s] = "none"]
    /\ wout' = [wout EXCEPT ![s] = None]
    /\ UNCHANGED <<config_vars, spark_vars, interrupted, obtained, shown,
                   deviations, pc, exit_status, raised, clock, run_vars,
                   cycle_vars,
                   live, printed, div_vars, cycle, validation, lookups, hist_times>>

----------------------------------------------------------------------------
(* lines 381-400: the loop over as_completed *)

\* faulty variants of display_summary: the rows in progress are always
\* shown; the previous rows are always shown
display_summary_current(current, last) == current
display_summary_stale(current, last) == last

\* lines 389-391: the rows shown while the quotes come in
display_summary(current, last) == IF last = {} THEN current ELSE last

Collect(s) ==
    /\ pc = "quotes"
    /\ wpc[s] = "done"
    /\ wpc' = [wpc EXCEPT ![s] = "collected"]
    /\ completed' = completed + 1
    /\ current_summary' = IF wres[s] # None THEN current_summary \cup {wres[s][1]}
                          ELSE current_summary
    /\ ticker_to_currency' =
         IF wres[s] # None
         THEN [k \in DOMAIN ticker_to_currency \cup {s} |->
                  IF k = s THEN wres[s][1].source_currency ELSE ticker_to_currency[k]]
         ELSE ticker_to_currency
    /\ live' = Some(build_display_group(
                        display_summary(current_summary', last_summary),
                        last_dividends,
                        <<"Updating", completed', Cardinality(Symbols)>>,
                        history_points))
    /\ shown' = shown \cup {display_summary(current_summary', last_summary)}
    /\ UNCHANGED <<config_vars, spark_vars, interrupted, obtained, wcause,
                   deviations, pc, exit_status, raised, clock, last_summary,
                   last_dividends, history_points, last_history_update,
                   current_dividends, rate_cache, now, printed, wq, wrate, wconv, wres,
                   div_vars, cycle, validation, lookups, wpath, wout, hist_times>>

----------------------------------------------------------------------------
(* lines 402-410: the history refresh *)

\* lines 404-406
history_due(t2c, t, last_update, points) ==
    t2c # EmptyMap /\ (t - last_update > HistoryPeriod \/ points = <<>>)

\* faulty variant of quotes_complete: the loop is left after the first result
quotes_complete_first == \E s \in Symbols : wpc[s] = "collected"

\* lines 372-381: the as_completed loop ends, and the pool is left, when
\* every future has completed and been handled
quotes_complete == \A s \in Symbols : wpc[s] = "collected"

HistoryCheck ==
    /\ pc = "quotes"
    /\ quotes_complete
    /\ now' = clock
    /\ IF history_due(ticker_to_currency, clock, last_history_update, history_points)
       THEN /\ pc' = "history"
            /\ hist_times' = IF hist_times = <<>> THEN <<clock>>
                             ELSE <<hist_times[Len(hist_times)], clock>>
       ELSE /\ pc' = "div_start"
            /\ hist_times' = hist_times
    /\ shown' = {}
    /\ UNCHANGED <<config_vars, spark_vars, interrupted, obtained, wcause,
                   deviations, exit_status, raised, clock, run_vars,
                   current_summary,
                   current_dividends, rate_cache, completed, live, printed,
                   worker_vars, div_vars, cycle, validation, lookups>>

HistoryReturn ==
    /\ pc = "history"
    /\ \E h \in HistoryResults :
         /\ Meets(h # <<>>)
         /\ history_points' = h
    /\ last_history_update' = now
    /\ pc' = "div_start"
    /\ UNCHANGED <<config_vars, spark_vars, interrupted, obtained, wcause,
                   shown, exit_status, raised, clock, last_summary,
                   last_dividends, ticker_to_currency, cycle_vars, live, printed,
                   worker_vars, div_vars, cycle, validation, lookups, hist_times>>

----------------------------------------------------------------------------
(* lines 412-423: the dividend phase *)

RowOf(rows, s) == CHOOSE r \in rows : r.symbol = s
SymbolsOf(rows) == {r.symbol : r \in rows}

StartDividends ==
    /\ pc = "div_start"
    /\ pc' = "dividends"
    /\ dpc' = [s \in Symbols |->
                  IF s \in SymbolsOf(current_summary) THEN "run" ELSE "idle"]
    /\ UNCHANGED <<config_vars, spark_vars, interrupted, obtained, wcause,
                   shown, deviations, exit_status, raised, clock, run_vars,
                   cycle_vars,
                   live, printed, worker_vars, dres, cycle, validation, lookups,
                   hist_times>>

DividendFetch(s) ==
    /\ dpc[s] = "run"
    /\ \E d \in DividendOutcomes :
         /\ Meets(RegularDividend(d))
         /\ dres' = [dres EXCEPT ![s] = get_dividend_data(RowOf(current_summary, s), d)]
    /\ dpc' = [dpc EXCEPT ![s] = "done"]
    /\ UNCHANGED <<config_vars, spark_vars, interrupted, obtained, wcause,
                   shown, pc, exit_status, raised, clock, run_vars, cycle_vars,
                   live, printed, worker_vars, cycle, validation, lookups, hist_times>>

DividendCollect(s) ==
    /\ pc = "dividends"
    /\ dpc[s] = "done"
    /\ dpc' = [dpc EXCEPT ![s] = "collected"]
    /\ current_dividends' = IF dres[s] # None THEN current_dividends \cup {dres[s][1]}
                            ELSE current_dividends
    /\ UNCHANGED <<config_vars, spark_vars, interrupted, obtained, wcause,
                   shown, deviations, pc, exit_status, raised, clock, run_vars,
                   current_summary, rate_cache, completed, now, live, printed,
                   worker_vars, dres, cycle, validation, lookups, hist_times>>

----------------------------------------------------------------------------
(* lines 425-451: the cycle's results are published *)

Publish ==
    /\ pc = "dividends"
    /\ \A s \in Symbols : dpc[s] \in {"idle", "collected"}
    /\ last_summary' = current_summary
    /\ last_dividends' = current_dividends
    /\ IF watch
       THEN /\ pc' = "wait"
            /\ live' = Some(build_display_group(current_summary, current_dividends,
                                                <<"Last update">>, history_points))
       ELSE /\ pc' = "final"
            /\ live' = live
    /\ UNCHANGED <<config_vars, spark_vars, interrupted, obtained, wcause,
                   shown, deviations, exit_status, raised, clock,
                   history_points,
                   last_history_update, ticker_to_currency, cycle_vars, printed,
                   worker_vars, div_vars, cycle, validation, lookups, hist_times>>

\* what the wait loop may take: its 5 seconds, or longer
WaitDelays == {WaitSeconds, WaitSeconds + HistoryPeriod}

\* lines 444-446
Wait ==
    /\ pc = "wait"
    /\ cycle < MaxCycles
    /\ \E d \in WaitDelays :
         /\ Meets(d = WaitSeconds)
         /\ clock' = clock + d
    /\ pc' = "loop"
    /\ UNCHANGED <<config_vars, spark_vars, interrupted, obtained, wcause,
                   shown, exit_status, raised, run_vars, cycle_vars, live,
                   printed, worker_vars, div_vars, cycle, validation, lookups,
                   hist_times>>

\* lines 448-451: the one-shot run prints the snapshot and returns
Finish ==
    /\ pc = "final"
    /\ printed' = Some(build_display_group(last_summary, last_dividends, <<>>, <<>>))
    /\ pc' = "exit"
    /\ exit_status' = Some(0)
    /\ UNCHANGED <<config_vars, spark_vars, interrupted, obtained, wcause,
                   shown, deviations, raised, clock, run_vars, cycle_vars, live,
                   worker_vars, div_vars, cycle, validation, lookups, hist_times>>

----------------------------------------------------------------------------
(* lines 453-455: KeyboardInterrupt *)

\* the main thread's positions inside the try block (lines 344-451)
Phases == {"validate", "loop", "quotes", "history", "div_start", "dividends",
           "wait", "final"}

WorkersAtRest ==
    \A s \in Symbols : /\ wpc[s] \in {"idle", "done", "collected"}
                        /\ dpc[s] \in {"idle", "done", "collected"}

\* the interrupt is raised in the main thread, wherever it is; neither
\* except Exception (lines 94, 232) nor the as_completed loops catch it, and
\* the with blocks are left
Interrupt ==
    /\ pc \in Phases
    /\ Meets(FALSE)
    /\ interrupted' = TRUE
    /\ pc' = "unwind"
    /\ UNCHANGED <<config_vars, spark_vars, obtained, wcause, shown,
                   exit_status, raised,
                   clock, run_vars, cycle_vars, live, printed, worker_vars, div_vars,
                   cycle, validation, lookups, hist_times>>

\* leaving a pool's with block waits for the workers submitted to it; then
\* the handler of line 453 runs sys.exit(0)
Unwound ==
    /\ pc = "unwind"
    /\ WorkersAtRest
    /\ pc' = "exit"
    /\ exit_status' = Some(0)
    /\ UNCHANGED <<config_vars, spark_vars, interrupted, obtained, wcause, shown,
                   deviations, raised, clock, run_vars, cycle_vars, live, printed,
                   worker_vars, div_vars, cycle, validation, lookups, hist_times>>

----------------------------------------------------------------------------

Next ==
    \/ Validate
    \/ StartCycle
    \/ PoolError
    \/ \E s \in Symbols : QuoteFetch(s)
    \/ \E s \in Symbols : RateCheck(s)
    \/ \E s \in Symbols : DirectLookup(s)
    \/ \E s \in Symbols : DirectStore(s)
    \/ \E s \in Symbols : InverseLookup(s)
    \/ \E s \in Symbols : InverseStore(s)
    \/ \E s \in Symbols : SummaryReturn(s)
    \/ \E s \in Symbols : Collect(s)
    \/ HistoryCheck
    \/ HistoryReturn
    \/ StartDividends
    \/ \E s \in Symbols : DividendFetch(s)
    \/ \E s \in Symbols : DividendCollect(s)
    \/ Publish
    \/ Wait
    \/ Finish
    \/ Interrupt
    \/ Unwound

Spec == Init /\ [][Next]_vars

----------------------------------------------------------------------------
(* render_sparkline applied on its own to every series within the bounds *)

SeriesInputs == UNION {[1..n -> 0..MaxSeriesValue] : n \in 0..MaxSeriesLen}

SparkInit ==
    /\ holdings = HoldingsOf(0)
    /\ target_currency = "USD"
    /\ watch = FALSE
    /\ InitRun
    /\ values \in SeriesInputs
    /\ glyphs = None

RenderSparkline ==
    /\ glyphs = None
    /\ glyphs' = Some(render_sparkline(values))
    /\ UNCHANGED <<config_vars, values, pc, exit_status, raised, clock, run_vars,
                   cycle_vars, live, printed, worker_vars, div_vars, cycle, validation,
                   lookups, hist_times, deviations, shown, interrupted, obtained, wcause>>

SparkNext == RenderSparkline

SparkSpec == SparkInit /\ [][SparkNext]_vars

----------------------------------------------------------------------------
(* The display while a refresh is in flight *)

TableRows(group) == {group.table[i] : i \in 1..Len(group.table)}

\* a live.update is issued in this step: by the as_completed loop (line 392)
\* or after the cycle's results have been swapped in (line 434)
LoopUpdate == pc = "quotes" /\ completed' = completed + 1
PublishUpdate == pc = "dividends" /\ pc' = "wait"

\* C1: every live.update issued between the start of the quote phase and the
\* end of the cycle shows a table holding every symbol of last_summary.
C1_LastKnownGood ==
    [][(LoopUpdate \/ PublishUpdate) =>
          SymbolsOf(last_summary') \subseteq SymbolsOf(TableRows(live'[1]))]_vars

\* C1 witness: in a later cycle a quote worker has been handled, the new
\* rows are fewer than the previous snapshot's, and the display still shows
\* the previous snapshot's rows.
C1_Witness ==
    /\ pc = "quotes"
    /\ completed > 0
    /\ last_summary # {}
    /\ SymbolsOf(current_summary) # SymbolsOf(last_summary)
    /\ SymbolsOf(current_summary) \subseteq SymbolsOf(last_summary)
    /\ TableRows(live[1]) = last_summary

\* C2 as stated: no rows handed to build_display_group by the loop are a
\* strict subset of the rows the cycle in progress collects; they are empty
\* or the complete rows of a finished cycle.
C2_Original ==
    \A rows \in shown :
        \/ rows = {}
        \/ rows = last_summary
        \/ ~(rows \subseteq current_summary /\ rows # current_summary)

\* C2 amended: the loop hands build_display_group the complete rows of the
\* latest finished cycle whenever that cycle collected a row; only while
\* last_summary is empty it hands over the rows collected so far.  The rows
\* swapped in, shown after the swap and printed at the end are those of a
\* finished quote phase, and the first renderable has no rows.
C2_CompleteOrFirstProgress ==
    [][/\ (live = None /\ live' # None) => TableRows(live'[1]) = {}
       /\ LoopUpdate =>
            TableRows(live'[1]) =
                IF last_summary # {} THEN last_summary ELSE current_summary'
       /\ last_summary' # last_summary =>
            quotes_complete /\ last_summary' = current_summary
       /\ PublishUpdate => TableRows(live'[1]) = last_summary'
       /\ printed' # printed => TableRows(printed'[1]) = last_summary]_vars

\* C2 witness: with a previous snapshot at hand, the loop has handled one
\* worker of two, has collected a row, and shows the previous snapshot.
C2_Witness ==
    /\ pc = "quotes"
    /\ last_summary # {}
    /\ current_summary # {}
    /\ current_summary # last_summary
    /\ ~quotes_complete
    /\ shown = {last_summary}

----------------------------------------------------------------------------
(* The rate cache under concurrent quote workers *)

\* C3 as stated: in a cycle in which every provider lookup succeeds, no pair
\* is looked up more than once, however the workers' steps interleave.
C3_Original ==
    deviations = 0 => \A pair \in DOMAIN lookups : lookups[pair] <= 1

----------------------------------------------------------------------------
(* The order of the phases of a cycle *)

AllQuotesHandled == \A s \in Symbols : wpc[s] = "collected"
DividendWorkerActive == \E s \in Symbols : dpc[s] \in {"run", "done"}

----------------------------------------------------------------------------
(* The cadence of the history refresh *)

\* C5 as stated: more than 120 seconds lie between two consecutive calls of
\* fetch_history, whatever the earlier call returned.
C5_Original ==
    Len(hist_times) = 2 => hist_times[2] - hist_times[1] > HistoryPeriod

----------------------------------------------------------------------------
(* get_rate *)

SourceOf(s) == source_currency_of(wq[s])
ForwardKey(s) == SourceOf(s) \o target_currency \o "=X"
InverseKey(s) == target_currency \o SourceOf(s) \o "=X"

\* C6 as stated: every value get_rate stores in the cache or returns is a
\* rate strictly greater than 0 (a direct lookup that yields nothing or 0
\* counts as failed).
C6_Original ==
    /\ \A k \in DOMAIN rate_cache : rate_cache[k] # None /\ RPos(rate_cache[k][1])
    /\ \A s \in Symbols :
          wpc[s] = "ret" /\ wconv[s] # None => RPos(wconv[s][1])

\* C7: when the direct lookup raised and the inverse pair yields R, get_rate
\* returns 1/R and stores 1/R under the forward key and nothing under the
\* inverse key; a later call for the forward pair returns what is stored.
C7_InverseFallback ==
    [][\A s \in Symbols :
          /\ (wpc[s] = "istore" /\ wpc'[s] = "ret") =>
                LET R == wout[s][1].val[1]
                IN  /\ wconv'[s] = Some(RDiv(Num(1), R))
                    /\ DOMAIN rate_cache' = DOMAIN rate_cache \cup {ForwardKey(s)}
                    /\ rate_cache'[ForwardKey(s)] = Some(RDiv(Num(1), R))
                    /\ InverseKey(s) \notin DOMAIN rate_cache'
                    /\ \A k \in DOMAIN rate_cache \ {ForwardKey(s)} :
                          rate_cache'[k] = rate_cache[k]
          /\ (wpc[s] = "rate" /\ wpc'[s] = "ret" /\ ForwardKey(s) \in DOMAIN rate_cache
                /\ SourceOf(s) # target_currency) =>
                wconv'[s] = rate_cache[ForwardKey(s)]]_vars

\* C7 witness: a worker's direct lookup of SEK -> USD raised, the inverse
\* pair yielded 8, and get_rate returned 1/8, stored under SEKUSD=X.
C7_Witness ==
    \E s \in Symbols :
        /\ wpc[s] = "ret"
        /\ wpath[s] = "inverse"
        /\ wout[s] = Some(Yield(Some(<<8, 1>>)))
        /\ wconv[s] = Some(<<1, 8>>)
        /\ DOMAIN rate_cache = {"SEKUSD=X"}
        /\ rate_cache["SEKUSD=X"] = Some(<<1, 8>>)
        /\ LookupCount("SEKUSD=X") >= 1
        /\ LookupCount("USDSEK=X") >= 1

\* C8: a get_rate call with source = target returns exactly 1.0, looks
\* nothing up and leaves the cache as it was, whatever the cache holds.
C8_Identity ==
    [][\A s \in Symbols :
          (wpc[s] = "rate" /\ wpc'[s] # "rate" /\ SourceOf(s) = target_currency) =>
              /\ wpc'[s] = "ret"
              /\ wconv'[s] = Some(<<1, 1>>)
              /\ rate_cache' = rate_cache
              /\ lookups' = lookups]_vars

\* C8 witness: get_rate has returned the identity rate to a worker while the
\* cache holds a rate stored by another worker.
C8_Witness ==
    \E s \in Symbols :
        /\ wpc[s] = "ret"
        /\ wpath[s] = "same"
        /\ wconv[s] = Some(<<1, 1>>)
        /\ rate_cache # EmptyMap

\* C9: a get_rate call made once the pair is in the cache returns the cached
\* value and looks nothing up.
C9_CachedNoLookup ==
    [][\A s \in Symbols :
          (wpc[s] = "rate" /\ wpc'[s] # "rate" /\ SourceOf(s) # target_currency
             /\ ForwardKey(s) \in DOMAIN rate_cache) =>
              /\ wpc'[s] = "ret"
              /\ wconv'[s] = rate_cache[ForwardKey(s)]
              /\ lookups' = lookups
              /\ rate_cache' = rate_cache]_vars

\* C9 witness: a worker got the rate from the cache; the pair was looked up
\* once in the cycle, by the other worker.
C9_Witness ==
    \E s \in Symbols :
        /\ wpc[s] = "ret"
        /\ wpath[s] = "cached"
        /\ ForwardKey(s) \in DOMAIN rate_cache
        /\ wconv[s] = rate_cache[ForwardKey(s)]
        /\ wconv[s] # None
        /\ LookupCount(ForwardKey(s)) = 1

----------------------------------------------------------------------------
(* validate_currency *)

\* C10: validate_currency is true for "USD" and false for a code that is
\* not 3 long, both without a lookup; for another 3-character code it looks
\* up "USD" + code + "=X" and is true exactly when the lookup yields a last
\* price that is neither missing nor zero.
C10_ValidateCurrency ==
    validation # None =>
        LET v == validation[1]
        IN  /\ target_currency = "USD" => v.ok /\ v.lookup = None
            /\ Len(target_currency) # 3 => ~v.ok /\ v.lookup = None
            /\ (target_currency # "USD" /\ Len(target_currency) = 3) =>
                  /\ v.lookup = Some("USD" \o target_currency \o "=X")
                  /\ v.outcome # None
                  /\ v.ok <=> /\ ~v.outcome[1].err
                              /\ v.outcome[1].val # None
                              /\ v.outcome[1].val[1] # <<0, 1>>

\* C10 witness: "SEK" has been validated by a lookup of USDSEK=X that
\* yielded a price.
C10_Witness ==
    /\ validation # None
    /\ target_currency = "SEK"
    /\ validation[1].ok
    /\ validation[1].lookup = Some("USDSEK=X")
    /\ pc = "loop"

----------------------------------------------------------------------------
(* How a run ends *)

Validated == validation # None /\ validation[1].ok
Rejected == validation # None /\ ~validation[1].ok

NothingFetched ==
    /\ cycle = 0
    /\ hist_times = <<>>
    /\ lookups = EmptyMap
    /\ \A s \in Symbols : wpc[s] = "idle" /\ dpc[s] = "idle"

\* the validation comes before the first cycle, and a rejected currency
\* ends the run with status 1 before anything is fetched
C11_ValidationFirst ==
    /\ cycle > 0 => Validated
    /\ Rejected => pc = "exit" /\ exit_status = Some(1) /\ NothingFetched

\* C11 as stated: the currency is validated before the first cycle; a
\* rejected currency ends the run with exit status 1 and nothing is ever
\* fetched; and a run ends with exit status 1 only when the currency was
\* rejected.
C11_Original ==
    /\ C11_ValidationFirst
    /\ exit_status = Some(1) => Rejected

----------------------------------------------------------------------------
(* A failing quote fetch *)

\* the holdings whose quote fetch of the cycle succeeded, and those for which
\* it failed: the read raised, the price is missing, or get_rate gave None
Succeeded == {s \in Symbols : wcause[s] = "ok"}
Failed == {s \in Symbols : wcause[s] \in {"error", "price", "rate"}}

RECURSIVE TotalNow(_)
TotalNow(rows) ==
    IF rows = {} THEN <<0, 1>>
    ELSE LET r == CHOOSE x \in rows : TRUE
         IN  RAdd(r.val_now, TotalNow(rows \ {r}))

\* the renderable group shows exactly the rows, and the total of its
\* summary panel, when it has one, is their sum
ShowsExactly(group, rows) ==
    /\ TableRows(group) = rows
    /\ Len(group.table) = Cardinality(rows)
    /\ group.summary_panel # None => group.summary_panel[1].total_val = TotalNow(rows)

\* C12: once a cycle's results are swapped in, the snapshot holds exactly one
\* row for each holding whose quote fetch succeeded and none for a holding
\* whose fetch failed, the group shown (watch mode) or printed (one-shot)
\* totals exactly those rows, and no error has left the cycle.
C12_FailingQuoteSkipped ==
    (pc \in {"wait", "final"} \/ (pc = "exit" /\ printed # None)) =>
        /\ Succeeded \cup Failed = Symbols
        /\ SymbolsOf(last_summary) = Succeeded
        /\ \A s \in Succeeded :
              /\ Cardinality({r \in last_summary : r.symbol = s}) = 1
              /\ wres[s] = Some(RowOf(last_summary, s))
        /\ raised = None
        /\ exit_status # Some(1)
        /\ pc = "wait" => ShowsExactly(live[1], last_summary)
        /\ pc = "exit" => ShowsExactly(printed[1], last_summary)

\* C12 witness: a cycle in which one quote fetch failed and another succeeded
\* has been published; the group shows the one row and its value as total.
C12_Witness ==
    /\ pc = "wait"
    /\ Failed # {}
    /\ Succeeded # {}
    /\ Cardinality(last_summary) = Cardinality(Succeeded)
    /\ live[1].summary_panel # None
    /\ \E r \in last_summary : live[1].summary_panel[1].total_val = r.val_now

----------------------------------------------------------------------------
(* One-shot mode *)

\* a one-shot run that was not interrupted has ended after exactly one cycle
\* with status 0: one quote phase, at most one dividend phase and at most
\* one history fetch, and the snapshot printed
OneCycleThenExit ==
    (~watch /\ Validated /\ ~interrupted /\ pc = "exit") =>
        /\ exit_status = Some(0)
        /\ raised = None
        /\ cycle = 1
        /\ \A s \in Symbols : wpc[s] = "collected" /\ dpc[s] \in {"idle", "collected"}
        /\ Len(hist_times) <= 1
        /\ printed # None

\* the part of C13 that holds: with at least one holding
C13_WithHoldings == Symbols # {} => OneCycleThenExit /\ (~watch => cycle <= 1)

\* C13 as stated: with watch mode off and a valid target currency the run
\* makes exactly one cycle and then ends with exit status 0, whatever the
\* holdings are.
C13_Original == OneCycleThenExit /\ (~watch => cycle <= 1)

----------------------------------------------------------------------------
(* Watch mode and the interrupt *)

\* an interrupted run ends with status 0, no exception escaping and every
\* worker of the pools finished
InterruptedCleanly ==
    (interrupted /\ pc = "exit") =>
        /\ exit_status = Some(0)
        /\ raised = None
        /\ WorkersAtRest

\* a watch session whose currency was accepted ends only by an interrupt
EndsOnlyByInterrupt == (watch /\ Validated /\ pc = "exit") => interrupted

\* the part of C14 that holds: the interrupt, and the watch loop with at
\* least one holding
C14_WithHoldings == InterruptedCleanly /\ (Symbols # {} => EndsOnlyByInterrupt)

\* C14 as stated: in watch mode the loop stops only on an interrupt, and an
\* interrupt arriving in any phase ends the run with exit status 0 and with
\* no worker still running.
C14_Original == InterruptedCleanly /\ EndsOnlyByInterrupt

----------------------------------------------------------------------------
(* The row of a holding *)

\* equality of two rationals, by cross-multiplication
SameNumber(a, b) == a[1] * b[2] = b[1] * a[2]

\* the worker of s returns from get_ticker_summary in this step, having a
\* price and a rate
ReturnsRow(s) ==
    /\ wpc[s] = "ret" /\ wpc'[s] = "done"
    /\ wq[s].price # None
    /\ wconv[s] # None

\* C15: the row returned for a holding with a price and a rate has
\* val_now = price * rate * quantity; with a previous close that is known
\* and not zero, chg_pct * previous_close = (price - previous_close) * 100;
\* otherwise chg_pct = 0 and val_prev = val_now.  With quantity 10, price
\* 110, previous close 100 and rate 1 the value is 1100 and the change 10.
C15_RowArithmetic ==
    [][\A s \in Symbols :
          ReturnsRow(s) =>
              LET price == wq[s].price[1]
                  prev == wq[s].prev
                  rate == wconv[s][1]
                  qty == holdings[s]
                  known == prev # None /\ prev[1][1] # 0
              IN  /\ wres'[s] # None
                  /\ LET row == wres'[s][1]
                     IN  /\ row.symbol = s /\ row.qty = qty
                         /\ SameNumber(row.val_now,
                                       <<price[1] * rate[1] * qty, price[2] * rate[2]>>)
                         /\ known =>
                               SameNumber(<<row.chg_pct[1] * prev[1][1],
                                            row.chg_pct[2] * prev[1][2]>>,
                                          <<(price[1] * prev[1][2] - prev[1][1] * price[2]) * 100,
                                            price[2] * prev[1][2]>>)
                         /\ ~known => row.chg_pct = <<0, 1>> /\ row.val_prev = row.val_now
                         /\ (qty = 10 /\ price = <<110, 1>> /\ prev = Some(<<100, 1>>)
                               /\ rate = <<1, 1>>) =>
                               row.val_now = <<1100, 1>> /\ row.chg_pct = <<10, 1>>]_vars

\* C15 witness: holding A (quantity 10), quoted in the target currency at
\* 110 with previous close 100, has the row with value 1100 and change 10.
C15_Witness ==
    /\ "A" \in Symbols
    /\ target_currency = "SEK"
    /\ wpc["A"] = "done"
    /\ wres["A"] # None
    /\ wres["A"][1].qty = 10
    /\ wres["A"][1].conv = <<1, 1>>
    /\ wres["A"][1].val_now = <<1100, 1>>
    /\ wres["A"][1].val_prev = <<1000, 1>>
    /\ wres["A"][1].chg_pct = <<10, 1>>

----------------------------------------------------------------------------
(* The totals of a renderable group *)

RECURSIVE TotalPrev(_)
TotalPrev(rows) ==
    IF rows = {} THEN <<0, 1>>
    ELSE LET r == CHOOSE x \in rows : TRUE
         IN  RAdd(r.val_prev, TotalPrev(rows \ {r}))

\* the groups the run has built and still holds: shown by Live, printed
Groups == {g \in {live, printed} : g # None}

HasTotal(group) == group.summary_panel # None
HasDayChange(group) ==
    group.summary_panel # None /\ group.summary_panel[1].day_chg # None

\* C16 as stated: every group carries the total value, the sum of val_now
\* over its rows, and carries the day change exactly when the sum of
\* val_prev over its rows is greater than 0.
C16_Original ==
    \A g \in Groups :
        LET rows == TableRows(g[1])
        IN  /\ HasTotal(g[1])
            /\ g[1].summary_panel[1].total_val = TotalNow(rows)
            /\ HasDayChange(g[1]) <=> RPos(TotalPrev(rows))

\* C16 amended: the summary panel, which holds the total value and the day
\* change, is built exactly when the sum of val_prev over the rows is
\* greater than 0; its total is the sum of val_now over the rows and its day
\* change times the previous total is (total - previous total) * 100.  When
\* the previous total is not greater than 0 the group has neither total nor
\* day change, and still its table, dividend table and footer.
C16_PanelWhenPreviousValue ==
    \A g \in Groups :
        LET rows == TableRows(g[1])
            total_val == TotalNow(rows)
            total_prev == TotalPrev(rows)
        IN  /\ HasTotal(g[1]) <=> RPos(total_prev)
            /\ HasDayChange(g[1]) <=> RPos(total_prev)
            /\ HasTotal(g[1]) =>
                  /\ g[1].summary_panel[1].total_val = total_val
                  /\ RMul(g[1].summary_panel[1].day_chg[1], total_prev)
                        = RMul(RSub(total_val, total_prev), <<100, 1>>)
            /\ Len(g[1].table) = Cardinality(rows)
            /\ DOMAIN g[1] = {"table", "div_table", "summary_panel", "footer"}

\* C16 witness: a published group whose rows have a previous total of 0 (the
\* rate of the cycle was 0) has its table and no summary panel.
C16_Witness ==
    /\ pc = "wait"
    /\ last_summary # {}
    /\ TableRows(live[1]) = last_summary
    /\ TotalPrev(last_summary) = <<0, 1>>
    /\ live[1].summary_panel = None

----------------------------------------------------------------------------
(* render_sparkline *)

Constant(series) == \A i, j \in 1..Len(series) : series[i] = series[j]
NonDecreasing(series) ==
    \A i, j \in 1..Len(series) : i <= j => series[i] <= series[j]
Least(series) ==
    CHOOSE m \in {series[i] : i \in 1..Len(series)} :
        \A i \in 1..Len(series) : m <= series[i]
Greatest(series) ==
    CHOOSE m \in {series[i] : i \in 1..Len(series)} :
        \A i \in 1..Len(series) : m >= series[i]

\* the glyphs are the levels floor((v - min) / (max - min) * 7) of the values
\* of a series with max > min
Quantized(series, levels) ==
    LET min_v == Least(series)
        span == Greatest(series) - min_v
    IN  span > 0 =>
            \A i \in 1..Len(series) :
                /\ levels[i] \in 0..7
                /\ levels[i] * span <= (series[i] - min_v) * 7
                /\ (series[i] - min_v) * 7 < (levels[i] + 1) * span

\* one glyph per value; all glyphs at level 7 for a constant series; levels
\* that do not decrease along a series that does not decrease
Rendered(series, levels) ==
    /\ Len(levels) = Len(series)
    /\ Quantized(series, levels)
    /\ Constant(series) => \A i \in 1..Len(levels) : levels[i] = 7
    /\ NonDecreasing(series) => NonDecreasing(levels)

\* C17 as stated: for every series of length >= 1 the output has one glyph
\* per value, at the level floor((v - min) / (max - min) * 7); the glyphs of
\* a constant series are all at the highest level and those of a
\* non-decreasing series do not decrease.
C17_Original ==
    (glyphs # None /\ Len(values) >= 1) => Rendered(values, glyphs[1])

\* C17 amended: a series of fewer than 2 values is rendered as the empty
\* string; for every series of length >= 2 the output has one glyph per
\* value, at the level floor((v - min) / (max - min) * 7), all at the highest
\* level for a constant series and not decreasing along a non-decreasing
\* series.
C17_Sparkline ==
    glyphs # None =>
        IF Len(values) < 2 THEN glyphs[1] = <<>>
        ELSE Rendered(values, glyphs[1])

\* C17 witness: the constant series 5, 5, 5 is rendered as three glyphs of
\* the highest level.
C17_Witness ==
    /\ values = <<5, 5, 5>>
    /\ glyphs = Some(<<7, 7, 7>>)

----------------------------------------------------------------------------
(* The rate cache from cycle to cycle *)

ObtainedFor(pair) == IF pair \in DOMAIN obtained THEN obtained[pair] ELSE {}

\* the conversion factor of a row is the identity for a row quoted in the
\* target currency, and else a rate that a lookup of this cycle produced
FromThisCycle(row) ==
    IF row.source_currency = target_currency
    THEN row.conv = <<1, 1>>
    ELSE Some(row.conv) \in ObtainedFor(row.source_currency \o target_currency \o "=X")

\* C18: the quote phase of every cycle starts with an empty cache; whatever
\* the cache holds was produced by a lookup of the cycle in progress; and
\* the conversion factor of every row of the cycle, and so of every dividend
\* total of the cycle, is the identity or was produced by a lookup of the
\* cycle.
C18_CachePerCycle ==
    /\ (pc = "quotes" /\ \A s \in Symbols : wpc[s] = "fetch") => rate_cache = EmptyMap
    /\ \A k \in DOMAIN rate_cache : rate_cache[k] \in ObtainedFor(k)
    /\ \A s \in Symbols :
          (wpc[s] = "ret" /\ wconv[s] # None /\ SourceOf(s) # target_currency) =>
              wconv[s] \in ObtainedFor(ForwardKey(s))
    /\ \A row \in current_summary : FromThisCycle(row)
    /\ \A d \in current_dividends :
          \E row \in current_summary :
              /\ row.symbol = d.symbol
              /\ SameNumber(d.total_p, <<d.amt[1] * row.conv[1] * row.qty,
                                         d.amt[2] * row.conv[2]>>)

\* C18 witness: in the second cycle the provider reports another rate than
\* in the first, and the row of the second cycle is built on the new rate
\* while the previous snapshot still holds the row built on the old one.
C18_Witness ==
    /\ cycle = 2
    /\ pc = "quotes"
    /\ \E row \in current_summary, old \in last_summary :
          /\ row.symbol = old.symbol
          /\ row.source_currency # target_currency
          /\ row.conv # old.conv
          /\ Some(row.conv) \in ObtainedFor(row.source_currency \o target_currency \o "=X")
          /\ Some(old.conv) \notin ObtainedFor(row.source_currency \o target_currency \o "=X")

----------------------------------------------------------------------------
(* The worker pools *)

\* C19 as stated: whatever the holdings, an empty mapping included, a
\* one-shot run with a valid target currency never ends through an
\* exception raised while a worker pool is set up; it ends with exit status
\* 0 or 1.
C19_Original ==
    (~watch /\ Validated) =>
        /\ raised = None
        /\ pc = "exit" => exit_status \in {Some(0), Some(1)}

\* the dividend pool is made only for a cycle that collected a row, and so
\* with at least one worker (lines 412-414)
DividendPoolSized ==
    pc = "dividends" =>
        (current_summary = {} <=> \A s \in Symbols : dpc[s] = "idle")

----------------------------------------------------------------------------
(* One conversion factor per currency *)

\* C20 as stated: any two rows of one cycle that are quoted in the same
\* currency carry the same conversion factor.
C20_Original ==
    \A r1, r2 \in current_summary :
        r1.source_currency = r2.source_currency => r1.conv = r2.conv

====
